---------------------------- MODULE Spec2Model ----------------------------
(***************************************************************************)
(* Hybrid PDF ingest pipeline of YASAA VISION                               *)
(* (src/App/ingest/ingest_hybrid.py): main() walks the discovered PDF       *)
(* files, process_pdf() walks the pages of one file, process_page_hybrid()  *)
(* classifies and assembles one page, extract_embedded_images() sends the   *)
(* embedded images to the vision interpreter.                               *)
(*                                                                          *)
(* Python str values are TLA+ strings: Len, \o and SubSeq act on them as    *)
(* len, + and slicing do.  The external collaborators (PyMuPDF, the vision  *)
(* interpreter, the vector store) are the environment: what they return or  *)
(* raise is chosen with \E in the action that calls them.                   *)
(***************************************************************************)
EXTENDS Integers, Sequences, FiniteSets, TLC

(***************************************************************************)
(* Bounds of the model.                                                     *)
(***************************************************************************)
\* most pages in a book of plain, figure and scan pages
MaxPages == 3
\* most pages in a book whose pages carry embedded images
MaxImagePages == 2
\* most PDF files in the folder of the multi-file scenarios
MaxFiles == 2

(***************************************************************************)
(* Python string primitives.  The strings of the model are ASCII: a Turkish *)
(* letter of a source literal is written as its ASCII base letter, one      *)
(* character for one character, so every length is the source's.            *)
(***************************************************************************)
Char(s, i) == SubSeq(s, i, i)

\* str.strip() whitespace
IsSpace(c) == c \in {" ", "\t", "\n", "\r", "\f"}

RECURSIVE lstrip(_)
lstrip(s) ==
    IF s = "" \/ ~IsSpace(Char(s, 1)) THEN s ELSE lstrip(SubSeq(s, 2, Len(s)))

RECURSIVE rstrip(_)
rstrip(s) ==
    IF s = "" \/ ~IsSpace(Char(s, Len(s))) THEN s ELSE rstrip(SubSeq(s, 1, Len(s) - 1))

\* str.strip(): drops the leading and the trailing whitespace
strip(s) == rstrip(lstrip(s))

UpperChars == "ABCDEFGHIJKLMNOPQRSTUVWXYZ"
LowerChars == "abcdefghijklmnopqrstuvwxyz"

LowerChar(c) ==
    IF \E i \in 1..Len(UpperChars) : Char(UpperChars, i) = c
    THEN Char(LowerChars, CHOOSE i \in 1..Len(UpperChars) : Char(UpperChars, i) = c)
    ELSE c

\* str.lower(), character by character (the two halves of s in turn)
RECURSIVE lower(_)
lower(s) ==
    IF Len(s) <= 1 THEN LowerChar(s)
    ELSE lower(SubSeq(s, 1, Len(s) \div 2)) \o lower(SubSeq(s, Len(s) \div 2 + 1, Len(s)))

\* "sub in s"
Contains(s, sub) ==
    \E i \in 1..(Len(s) - Len(sub) + 1) : SubSeq(s, i, i + Len(sub) - 1) = sub

\* the positions from i on where sub occurs in s
Matches(s, sub, i) ==
    {j \in i..(Len(s) - Len(sub) + 1) : SubSeq(s, j, j + Len(sub) - 1) = sub}

\* s.count(sub) from position i on: non-overlapping occurrences, left to right
RECURSIVE CountFrom(_, _, _)
CountFrom(s, sub, i) ==
    LET found == Matches(s, sub, i)
    IN  IF found = {} THEN 0
        ELSE 1 + CountFrom(s, sub, (CHOOSE j \in found : \A k \in found : j <= k) + Len(sub))

Count(s, sub) == CountFrom(s, sub, 1)

\* s[-k:] for 0 <= k < len(s); s[-0:] is s[0:], the whole string
LastChars(s, k) == IF k = 0 THEN s ELSE SubSeq(s, Len(s) - k + 1, Len(s))

\* "\n\n".join(parts)
RECURSIVE Join(_, _)
Join(sep, parts) ==
    IF parts = <<>> THEN ""
    ELSE IF Len(parts) = 1 THEN parts[1]
    ELSE parts[1] \o sep \o Join(sep, Tail(parts))


(***************************************************************************)
(* State.                                                                   *)
(***************************************************************************)
VARIABLES
    OPENAI_API_KEY,   \* module globals read from the environment at import
    MONGO_URI,
    OVERLAP_SIZE,
    folder,           \* PDF_FOLDER on disk: the PDF files under it, in rglob order
    pc,               \* where main() stands
    pdf_files,        \* main: the list find_pdfs returned
    file_idx,         \* main: position of the for loop over pdf_files (1-based)
    all_stats,        \* main: one entry per file handled so far
    totals,           \* main: the sums of the final summary
    exit_code,        \* sys.exit status; -1 while the process runs
    stats,            \* process_pdf: statistics of the file being processed
    documents,        \* process_pdf: the Documents collected for the write batch
    previous_tail,    \* process_pdf: the carried overlap
    page_num,         \* process_pdf: pages of the file handled so far
    open_docs,        \* fitz: indexes of the files whose handle is open
    collection,       \* vector store: the documents persisted, in write order
    write_calls,      \* vector store: every add_documents call, with its outcome
    page_log,         \* per page of the file being processed: how it ended
    last,             \* the latest process_page_hybrid call: its arguments and result
    now,              \* the clock datetime.now() reads
    rerun,            \* the page pipeline run twice over one file: both passes
    graph             \* the conversational graph: where the flow stands, its state

vars == <<OPENAI_API_KEY, MONGO_URI, OVERLAP_SIZE, folder, pc, pdf_files, file_idx,
          all_stats, totals, exit_code, stats, documents, previous_tail, page_num,
          open_docs, collection, write_calls, page_log, last, now, rerun, graph>>

(***************************************************************************)
(* Configuration (ingest_hybrid.py, 52-80).  MIN_TEXT_LENGTH is read from   *)
(* the environment (default 500); the run modelled sets it to 60, above the *)
(* 50 characters a page needs to be kept, as the default is.                *)
(***************************************************************************)
MIN_TEXT_LENGTH == 60
MIN_IMAGE_SIZE == 3000

DIAGRAM_KEYWORDS ==
    << "Fig", "Figure", "Plate", "Diagram", "See illustration",
       "Mount", "Line", "drawing", "sketch", "chart", "image",
       "Sekil", "Cizim", "Resim", "Diyagram", "Tablo",
       "Cizgi", "Tepe", "sekilde", "goruldugu", "bakiniz" >>

VISION_PROMPT_FULL_PAGE == "FULL_PAGE"
VISION_PROMPT_DIAGRAM_ONLY == "DIAGRAM_ONLY"
VISION_PROMPT_EMBEDDED_IMAGE == "EMBEDDED_IMAGE"

(***************************************************************************)
(* The environment's answers.  An interpreter call returns a text or        *)
(* raises; so do the PyMuPDF calls and the vector store.                    *)
(***************************************************************************)
Returns(text) == [ok |-> TRUE, content |-> text]
Raises == [ok |-> FALSE, content |-> ""]

\* what the interpreter may answer to the full-page prompt
FullPageAnswers ==
    { Returns("A scanned page: the palm is drawn with the heart and head curves marked."),
      Returns(""),
      Raises }

\* what the interpreter may answer to the diagram-only prompt
DiagramAnswers ==
    { Returns("The drawing shows the heart curve ending under the index finger."),
      Returns("NO_DIAGRAMS_FOUND"),
      Raises }

\* what the interpreter may answer to the embedded-image prompt
ImageAnswers ==
    { Returns("A hand with the heart curve marked."),
      Raises }

(***************************************************************************)
(* The native texts of the pages the run may meet.                          *)
(***************************************************************************)
\* 88 characters once trimmed, no diagram keyword
TextPlain ==
    "  Palm reading starts with the shape of the hand and the thumb; a broad palm shows vigour.\n"
\* 75 characters once trimmed, with the keywords Fig and Figure
TextKeyword ==
    "See Figure 3 for the heart curve, which runs below the fingers to the edge.\n"
\* 7 characters once trimmed, with the keyword Plate
TextShortKeyword == "Plate 2\n"
\* 78 characters once trimmed; the print refers to a plate as [IMAGE 7], which also
\* holds the keywords image and Mount
TextCaption ==
    "The plate opposite [IMAGE 7] shows the mount of Venus under the thumb in full.\n"

PageTexts == {TextPlain, TextKeyword, TextShortKeyword, TextCaption}

(***************************************************************************)
(* has_diagram_keywords (180-186)                                           *)
(***************************************************************************)
has_diagram_keywords(text) ==
    LET text_lower == lower(text)
    IN  \E k \in 1..Len(DIAGRAM_KEYWORDS) :
            Contains(text_lower, lower(DIAGRAM_KEYWORDS[k]))

\* has_diagram_keywords on the trimmed page texts, evaluated once
KeywordsOfPageTexts == [t \in {strip(x) : x \in PageTexts} |-> has_diagram_keywords(t)]

\* has_diagram_keywords(raw_text), looked up when raw_text is a page text
KeywordGate(raw_text) ==
    IF raw_text \in DOMAIN KeywordsOfPageTexts
    THEN KeywordsOfPageTexts[raw_text]
    ELSE has_diagram_keywords(raw_text)

(***************************************************************************)
(* extract_embedded_images (189-245).  image.corrupt: doc.extract_image     *)
(* raises on it.  answers[i] is what the interpreter does when asked about  *)
(* image i.  The result carries the descriptions and the interpreter calls  *)
(* made, in order.                                                          *)
(***************************************************************************)
\* the size test of line 226: TRUE when the image is skipped as too small
TooSmall(image_bytes) == 50 < image_bytes /\ image_bytes < MIN_IMAGE_SIZE

ImageCall(page_no, img_idx, answer) ==
    [prompt |-> VISION_PROMPT_EMBEDDED_IMAGE, page |-> page_no,
     image |-> img_idx, ok |-> answer.ok, answer |-> answer.content]

\* the loop over the images left at the first image that fails
RECURSIVE ImageLoop_StopAtFailure(_, _, _, _, _)
ImageLoop_StopAtFailure(images, answers, page_no, img_idx, acc) ==
    IF img_idx > Len(images) THEN acc
    ELSE LET img == images[img_idx]
             answer == answers[img_idx]
             call == ImageCall(page_no, img_idx, answer)
             description == "[IMAGE " \o ToString(img_idx) \o " - Page "
                              \o ToString(page_no) \o "]: " \o answer.content
         IN  IF img.corrupt THEN acc
             ELSE IF TooSmall(img.bytes)
                  THEN ImageLoop_StopAtFailure(images, answers, page_no, img_idx + 1, acc)
             ELSE IF ~answer.ok
                  THEN [acc EXCEPT !.calls = Append(@, call)]
                  ELSE ImageLoop_StopAtFailure(images, answers, page_no, img_idx + 1,
                           [descriptions |-> Append(acc.descriptions, description),
                            calls |-> Append(acc.calls, call)])

RECURSIVE ImageLoop(_, _, _, _, _)
ImageLoop(images, answers, page_no, img_idx, acc) ==
    IF img_idx > Len(images) THEN acc
    ELSE LET img == images[img_idx]
             answer == answers[img_idx]
             call == ImageCall(page_no, img_idx, answer)
             description == "[IMAGE " \o ToString(img_idx) \o " - Page "
                              \o ToString(page_no) \o "]: " \o answer.content
             next ==
                 IF img.corrupt THEN acc
                 ELSE IF TooSmall(img.bytes) THEN acc
                 ELSE IF ~answer.ok
                      THEN [acc EXCEPT !.calls = Append(@, call)]
                      ELSE [descriptions |-> Append(acc.descriptions, description),
                            calls |-> Append(acc.calls, call)]
         IN  ImageLoop(images, answers, page_no, img_idx + 1, next)

\* the embedded images looked at only on pages that have enough native text
extract_embedded_images_TextPagesOnly(page, page_no, env) ==
    IF env.images_raises \/ page.images = <<>> \/ Len(strip(page.text)) < MIN_TEXT_LENGTH
    THEN [descriptions |-> <<>>, calls |-> <<>>]
    ELSE ImageLoop(page.images, env.images, page_no, 1,
                   [descriptions |-> <<>>, calls |-> <<>>])

extract_embedded_images(page, page_no, env) ==
    IF env.images_raises \/ page.images = <<>>
    THEN [descriptions |-> <<>>, calls |-> <<>>]
    ELSE ImageLoop(page.images, env.images, page_no, 1,
                   [descriptions |-> <<>>, calls |-> <<>>])

(***************************************************************************)
(* process_page_hybrid (248-349).  The result is what the call returns,     *)
(* or raised = TRUE when an exception leaves it; calls are the interpreter  *)
(* calls made on the way, in order.                                         *)
(***************************************************************************)
RenderCall(page_no, prompt, answer) ==
    [prompt |-> prompt, page |-> page_no, image |-> 0, ok |-> answer.ok,
     answer |-> answer.content]

\* the keyword gate tried before the text-length gate
ProcessingMode_KeywordFirst(raw_text, has_images) ==
    IF KeywordGate(raw_text) THEN "HYBRID"
    ELSE IF Len(raw_text) < MIN_TEXT_LENGTH THEN "VISION_FULL"
    ELSE IF has_images THEN "TEXT_WITH_IMAGES"
    ELSE "TEXT_ONLY"

\* step 3 (284-315): the mode, from the text and the image descriptions
ProcessingMode(raw_text, has_images) ==
    IF Len(raw_text) < MIN_TEXT_LENGTH THEN "VISION_FULL"
    ELSE IF KeywordGate(raw_text) THEN "HYBRID"
    ELSE IF has_images THEN "TEXT_WITH_IMAGES"
    ELSE "TEXT_ONLY"

\* the interpreter's answer kept whatever it says
DiagramDescription_Unfiltered(vision_result) == vision_result

\* 304-305: the answer to the diagram-only prompt is kept unless it signals that
\* the page has no diagram
DiagramDescription(vision_result) ==
    IF ~Contains(vision_result, "NO_DIAGRAMS_FOUND") THEN vision_result ELSE ""

\* the continuation block stamped with the time of processing
OverlapPrefix_Stamped(tail) ==
    IF tail # "" /\ OVERLAP_SIZE > 0
    THEN "[...onceki sayfadan devam " \o ToString(now) \o "...]\n" \o tail \o "\n\n"
    ELSE ""

\* the continuation block written whenever a tail is carried
OverlapPrefix_IgnoresSize(tail) ==
    IF tail # ""
    THEN "[...onceki sayfadan devam...]\n" \o tail \o "\n\n"
    ELSE ""

\* step 4a (320-322)
OverlapPrefix(tail) ==
    IF tail # "" /\ OVERLAP_SIZE > 0
    THEN "[...onceki sayfadan devam...]\n" \o tail \o "\n\n"
    ELSE ""

\* the native text kept in front of the description of a VISION_FULL page
MainContent_KeepsText(processing_mode, raw_text, page_render_description) ==
    raw_text \o
    (IF page_render_description # ""
     THEN (IF processing_mode = "VISION_FULL" THEN "" ELSE "\n\n[DIAGRAM ANALYSIS]\n")
            \o page_render_description
     ELSE "")

\* step 4b (324-335)
MainContent(processing_mode, raw_text, page_render_description) ==
    IF processing_mode = "VISION_FULL" THEN page_render_description
    ELSE raw_text \o
         (IF page_render_description # ""
          THEN "\n\n[DIAGRAM ANALYSIS]\n" \o page_render_description
          ELSE "")

\* step 4c (337-340)
ImagesContent(image_descriptions) ==
    IF image_descriptions # <<>>
    THEN "\n\n[EMBEDDED IMAGES]\n" \o Join("\n\n", image_descriptions)
    ELSE ""

\* step 5 (342-347)
NewTail(raw_text) ==
    IF Len(raw_text) > OVERLAP_SIZE THEN LastChars(raw_text, OVERLAP_SIZE) ELSE raw_text

\* an exception leaves the call: nothing is returned; mode is the local
\* processing_mode at that point (logged at 291 and 299)
Raised(processing_mode, calls) ==
    [raised |-> TRUE, content |-> "", new_tail |-> "", mode |-> processing_mode,
     calls |-> calls]

process_page_hybrid(page, page_no, tail, env) ==
    LET raw_text == strip(page.text)
        embedded == extract_embedded_images(page, page_no, env)
        image_descriptions == embedded.descriptions
        has_images == Len(image_descriptions) > 0
        processing_mode == ProcessingMode(raw_text, has_images)
        renders == processing_mode \in {"VISION_FULL", "HYBRID"}
        prompt == IF processing_mode = "VISION_FULL" THEN VISION_PROMPT_FULL_PAGE
                  ELSE VISION_PROMPT_DIAGRAM_ONLY
        calls == IF renders
                 THEN Append(embedded.calls, RenderCall(page_no, prompt, env.render))
                 ELSE embedded.calls
        vision_result == env.render.content
        page_render_description ==
            IF processing_mode = "VISION_FULL" THEN vision_result
            ELSE IF processing_mode = "HYBRID" THEN DiagramDescription(vision_result)
            ELSE ""
        final_content == OverlapPrefix(tail)
                           \o MainContent(processing_mode, raw_text, page_render_description)
                           \o ImagesContent(image_descriptions)
    IN  IF renders /\ ~env.render.ok THEN Raised(processing_mode, calls)
        ELSE [raised |-> FALSE, content |-> final_content, new_tail |-> NewTail(raw_text),
              mode |-> processing_mode, calls |-> calls]

(***************************************************************************)
(* The PDFs the run may find.  A page is its native text (what              *)
(* page.get_text() returns) and its embedded images; a file is its path,    *)
(* whether fitz.open succeeds on it, and its pages.                         *)
(***************************************************************************)
Image(n) == [bytes |-> n, corrupt |-> FALSE]
CorruptImage == [bytes |-> 10000, corrupt |-> TRUE]

PlainPage == [text |-> TextPlain, images |-> <<>>]
FigurePage == [text |-> TextKeyword, images |-> <<>>]
ScanPage == [text |-> TextShortKeyword, images |-> <<>>]
CaptionPage == [text |-> TextCaption, images |-> <<>>]

\* pages without embedded images
PagePool == {PlainPage, FigurePage, ScanPage}

FigureImagePage == [text |-> TextKeyword, images |-> <<Image(10000)>>]
ScanImagePage == [text |-> TextShortKeyword, images |-> <<Image(10000)>>]
PicturePage == [text |-> TextPlain, images |-> <<CorruptImage, Image(3000), Image(4000)>>]
IconPage == [text |-> TextPlain, images |-> <<Image(30), Image(2999)>>]

\* pages with embedded images
ImagePagePool == {FigureImagePage, ScanImagePage, PicturePage, IconPage}

RECURSIVE SeqsOfLen(_, _)
SeqsOfLen(S, n) ==
    IF n = 0 THEN {<<>>}
    ELSE {Append(q, x) : q \in SeqsOfLen(S, n - 1), x \in S}

SeqsUpTo(S, n) == UNION {SeqsOfLen(S, k) : k \in 1..n}

PdfFile(path, name, openable, pages) ==
    [path |-> path, name |-> name, openable |-> openable, pages |-> pages]

\* one book: up to MaxPages pages without images, or up to MaxImagePages with
SingleFileFolders ==
    {<<PdfFile("book.pdf", "book.pdf", TRUE, pages)>> :
        pages \in SeqsUpTo(PagePool, MaxPages) \cup SeqsUpTo(ImagePagePool, MaxImagePages)}

FilePool ==
    { PdfFile("broken.pdf", "broken.pdf", FALSE, <<>>),
      PdfFile("notes.pdf", "notes.pdf", TRUE, <<PlainPage>>),
      PdfFile("scans/notes.pdf", "notes.pdf", TRUE, <<ScanPage, CaptionPage>>) }

\* several files, up to MaxFiles, from FilePool, each path once
MultiFileFolders ==
    {fs \in UNION {SeqsOfLen(FilePool, k) : k \in 2..MaxFiles} :
        \A a, b \in DOMAIN fs : a # b => fs[a].path # fs[b].path}

Folders ==
    {[exists |-> FALSE, files |-> <<>>], [exists |-> TRUE, files |-> <<>>]}
    \cup {[exists |-> TRUE, files |-> fs] : fs \in SingleFileFolders \cup MultiFileFolders}

OverlapSizes == {0, 24}

\* what the environment may do while one page is processed: page.get_images
\* raises or not, the interpreter's answer for each embedded image, and its answer
\* for the rendered page
RenderAnswers(page) ==
    IF Len(strip(page.text)) < MIN_TEXT_LENGTH THEN FullPageAnswers ELSE DiagramAnswers

Envs(page) ==
    {[images_raises |-> ir, images |-> a, render |-> r] :
        ir \in (IF page.images = <<>> THEN {FALSE} ELSE BOOLEAN),
        a \in [1..Len(page.images) -> ImageAnswers],
        r \in RenderAnswers(page)}

(***************************************************************************)
(* The conversational graph (agent/graph.py): vision_scanner, then the      *)
(* conditional edge route_after_vision, then knowledge_retriever and        *)
(* fortune_teller.  graph.state is the AgentState the nodes pass on (the    *)
(* chat messages, which no edge reads, are left out); a node returns the    *)
(* fields it updates and the graph writes them over the state.              *)
(***************************************************************************)
None == "<None>"

\* Python's truth test on an optional string
Falsy(x) == x = None \/ x = ""

\* the AgentState a caller hands to the graph (state.py 202-210, app.py 352-360):
\* the photograph, if any, and the report remembered from an earlier turn, if any
create_initial_state(image_bytes, remembered_report) ==
    [user_image_bytes |-> image_bytes,
     visual_analysis_report |-> remembered_report,
     retrieved_documents |-> <<>>,
     final_response |-> None,
     is_hand_detected |-> FALSE,
     error_message |-> None]

\* the graph writes a node's output over the state, field by field
Updated(state, output) ==
    [k \in DOMAIN state |-> IF k \in DOMAIN output THEN output[k] ELSE state[k]]

\* what the vision model may answer
VisionAnswers ==
    { Returns("Hand Shape: Square. Life Line: deep and curved around the Mount of Venus."),
      Returns("LOW_QUALITY\nHand Shape: Square. Life Line: faint."),
      Returns("  NOT_A_HAND: the photo shows a cat.\n"),
      Returns("Hand Shape: Spatulate. Life Line: long and unbroken. Head Line: straight. "
                \o "Remark: the object at the left edge is NOT_A_HAND but a sleeve."),
      Returns(""),
      Raises }

\* what the similarity search may give
SearchAnswers ==
    { [ok |-> TRUE, docs |-> <<>>],
      [ok |-> TRUE, docs |-> <<"--- PAGE 322 ---\nThe deep Life line shows vigour.">>],
      [ok |-> TRUE, docs |-> <<"--- PAGE 322 ---\nThe deep Life line shows vigour.",
                               "--- PAGE 145 ---\nA padded Mount of Venus shows warmth.">>],
      [ok |-> FALSE, docs |-> <<>>] }

\* what the persona model may answer
PersonaAnswers == { Returns("Ay kuzum, ne guzel bir el! Hayat cizgin cok guclu."), Raises }

\* vision_node.py 228-329
vision_analysis_node(state, answer) ==
    LET image_data == state.user_image_bytes
        analysis == answer.content
        analysis_stripped == strip(analysis)
        is_rejection == Contains(analysis_stripped, "NOT_A_HAND") /\ Len(analysis_stripped) < 100
    IN  IF Falsy(image_data)
        THEN [is_hand_detected |-> FALSE, visual_analysis_report |-> None,
              error_message |-> None]
        ELSE IF OPENAI_API_KEY = ""
        THEN [is_hand_detected |-> FALSE, visual_analysis_report |-> None,
              error_message |-> "Sistem hatasi olustu, lutfen tekrar deneyin."]
        ELSE IF ~answer.ok
        THEN [is_hand_detected |-> FALSE, visual_analysis_report |-> None,
              error_message |-> "Fotografi analiz edemedim, tekrar dener misin kuzum?"]
        ELSE IF is_rejection
        THEN [is_hand_detected |-> FALSE, visual_analysis_report |-> None,
              error_message |-> "Kuzum bu el fotografi degil gibi gorunuyor. "
                                  \o "Avuc icini duzgunce gosteren bir fotograf atar misin?"]
        ELSE [is_hand_detected |-> TRUE,
              visual_analysis_report |->
                  IF Contains(analysis, "LOW_QUALITY")
                  THEN analysis \o "\n\n[NOT: Fotograf kalitesi dusuk, analiz kisitli olabilir]"
                  ELSE analysis,
              error_message |-> None]

\* the edge taken whenever no error is set, hand or no hand
route_after_vision_IgnoresHand(state) ==
    IF Falsy(state.error_message) THEN "continue" ELSE "stop"

\* graph.py 52-80
route_after_vision(state) ==
    IF state.is_hand_detected /\ Falsy(state.error_message) THEN "continue" ELSE "stop"

\* retrieval_node.py 164-276.  connected: building the vector store, when it is not
\* cached, succeeds; when it fails with anything but ValueError the exception
\* leaves the node (212-219).  The result is the node's output, or raised.
retrieval_node(state, cached, connected, search) ==
    LET vision_report == state.visual_analysis_report
    IN  IF Falsy(vision_report)
        THEN [raised |-> FALSE, output |-> [retrieved_documents |-> <<>>, error_message |-> None]]
        ELSE IF ~cached /\ (OPENAI_API_KEY = "" \/ MONGO_URI = "")
        THEN [raised |-> FALSE,
              output |-> [retrieved_documents |-> <<>>,
                          error_message |-> "Kitaplara erisirken bir sorun olustu."]]
        ELSE IF ~cached /\ ~connected
        THEN [raised |-> TRUE, output |-> [retrieved_documents |-> <<>>, error_message |-> None]]
        ELSE IF ~search.ok
        THEN [raised |-> FALSE,
              output |-> [retrieved_documents |-> <<>>,
                          error_message |->
                              "Kitaplari tararken bir hata olustu, tekrar dener misin?"]]
        ELSE [raised |-> FALSE,
              output |-> [retrieved_documents |-> search.docs, error_message |-> None]]

\* persona_node.py 379-490
persona_node(state, answer) ==
    LET vision_report == state.visual_analysis_report
    IN  IF Falsy(vision_report)
        THEN [final_response |-> None,
              error_message |-> "Kuzum, elini goremedim ki falina bakayim. "
                                  \o "Bir el fotografi atar misin?"]
        ELSE IF OPENAI_API_KEY = ""
        THEN [final_response |-> None,
              error_message |-> "Ay kuzum, dilim tutuldu bir anlik. Tekrar dener misin?"]
        ELSE IF ~answer.ok
        THEN [final_response |-> None,
              error_message |-> "Kuzum nazar degdi galiba, dilim baglandi. "
                                  \o "Bir dakika sonra tekrar dener misin?"]
        ELSE [final_response |-> answer.content, error_message |-> None]

\* a node has run: its name and what it returned
Ran(node, output) == [node |-> node, output |-> output]

NoGraph ==
    [at |-> "", state |-> create_initial_state(None, None), ran |-> <<>>,
     vector_store |-> FALSE]

(***************************************************************************)
(* Initial state: the module globals as the environment sets them, the      *)
(* folder as it is on disk, main() not yet entered.                         *)
(***************************************************************************)
NoStats == [file_name |-> ""]
NoPage ==
    [page |-> 0, tail_in |-> "", images_listed |-> TRUE, raised |-> FALSE,
     content |-> "", new_tail |-> "", mode |-> "", calls |-> <<>>]
NoTotals ==
    [total_pages |-> 0, total_text_only |-> 0, total_text_with_images |-> 0,
     total_vision_full |-> 0, total_hybrid |-> 0, total_skipped |-> 0,
     total_docs |-> 0, total_images |-> 0]

NoRerun == [pass |-> 0, page_num |-> 0, previous_tail |-> "", first |-> <<>>, second |-> <<>>]

Init ==
    /\ OPENAI_API_KEY \in {"", "sk-key"}
    /\ MONGO_URI \in {"", "mongodb://host"}
    /\ OVERLAP_SIZE \in OverlapSizes
    /\ folder \in Folders
    /\ pc = "start"
    /\ pdf_files = <<>>
    /\ file_idx = 0
    /\ all_stats = <<>>
    /\ totals = NoTotals
    /\ exit_code = -1
    /\ stats = NoStats
    /\ documents = <<>>
    /\ previous_tail = ""
    /\ page_num = 0
    /\ open_docs = {}
    /\ collection = <<>>
    /\ write_calls = <<>>
    /\ page_log = <<>>
    /\ last = NoPage
    /\ now = 0
    /\ rerun = NoRerun
    /\ graph = NoGraph

(***************************************************************************)
(* find_pdfs (456-465)                                                      *)
(***************************************************************************)
find_pdfs(dir) == IF ~dir.exists THEN <<>> ELSE dir.files

(***************************************************************************)
(* main, up to the loop over the files (471-521)                            *)
(***************************************************************************)
\* the folder scanned before the credentials are looked at
Start_ScanFirst ==
    /\ pc = "start"
    /\ folder' = [folder EXCEPT !.exists = TRUE]
    /\ pdf_files' = find_pdfs(folder)
    /\ IF OPENAI_API_KEY = "" \/ MONGO_URI = ""
       THEN pc' = "exited" /\ exit_code' = 1 /\ UNCHANGED file_idx
       ELSE IF find_pdfs(folder) = <<>>
            THEN pc' = "exited" /\ exit_code' = 0 /\ UNCHANGED file_idx
            ELSE pc' = "files" /\ file_idx' = 1 /\ UNCHANGED exit_code
    /\ UNCHANGED <<graph, rerun, OPENAI_API_KEY, MONGO_URI, OVERLAP_SIZE, all_stats, totals, stats,
                   documents, previous_tail, page_num, open_docs, collection,
                   write_calls, page_log, last, now>>

Start ==
    /\ pc = "start"
    /\ IF OPENAI_API_KEY = "" \/ MONGO_URI = ""
       THEN /\ pc' = "exited"
            /\ exit_code' = 1
            /\ UNCHANGED <<folder, pdf_files, file_idx>>
       ELSE /\ folder' = [folder EXCEPT !.exists = TRUE]
            /\ pdf_files' = find_pdfs(folder)
            /\ IF find_pdfs(folder) = <<>>
               THEN pc' = "exited" /\ exit_code' = 0 /\ UNCHANGED file_idx
               ELSE pc' = "files" /\ file_idx' = 1 /\ UNCHANGED exit_code
    /\ UNCHANGED <<graph, rerun, OPENAI_API_KEY, MONGO_URI, OVERLAP_SIZE, all_stats, totals, stats,
                   documents, previous_tail, page_num, open_docs, collection,
                   write_calls, page_log, last, now>>

(***************************************************************************)
(* process_pdf, from its entry to the page loop (359-379), called from      *)
(* main's loop (523-530).  When fitz.open raises, process_pdf re-raises     *)
(* (449-451) and main records the file with the error (528-530).            *)
(***************************************************************************)
ErrorEntry(file_name, e) == [file_name |-> file_name, error |-> e]

\* the exception leaves main: the run ends there
FileFailed_Abort(file_name, e) ==
    /\ pc' = "exited"
    /\ exit_code' = 1
    /\ UNCHANGED <<all_stats, file_idx>>

\* the exception is swallowed without a statistics entry
FileFailed_NoEntry(file_name, e) ==
    /\ file_idx' = file_idx + 1
    /\ pc' = "files"
    /\ UNCHANGED <<all_stats, exit_code>>

\* main's handler (528-530): the file is recorded with the error and the loop
\* goes on to the next file
FileFailed(file_name, e) ==
    /\ all_stats' = Append(all_stats, ErrorEntry(file_name, e))
    /\ file_idx' = file_idx + 1
    /\ pc' = "files"
    /\ UNCHANGED exit_code

\* the statistics put at the head of the list
FileDone_Prepend(st) ==
    /\ all_stats' = <<st>> \o all_stats
    /\ file_idx' = file_idx + 1
    /\ pc' = "files"
    /\ UNCHANGED exit_code

\* main, 526-527: process_pdf returned its statistics
FileDone(st) ==
    /\ all_stats' = Append(all_stats, st)
    /\ file_idx' = file_idx + 1
    /\ pc' = "files"
    /\ UNCHANGED exit_code

NewStats(file_name) ==
    [file_name |-> file_name, total_pages |-> 0, text_only_pages |-> 0,
     text_with_images_pages |-> 0, vision_full_pages |-> 0, hybrid_pages |-> 0,
     skipped_pages |-> 0, documents_added |-> 0, total_images_analyzed |-> 0]

\* the carried overlap is not reset when a file is opened
OpenPdf_KeepTail ==
    /\ pc = "files"
    /\ file_idx <= Len(pdf_files)
    /\ LET pdf == pdf_files[file_idx]
       IN  IF pdf.openable
           THEN /\ open_docs' = open_docs \cup {file_idx}
                /\ stats' = [NewStats(pdf.name) EXCEPT !.total_pages = Len(pdf.pages)]
                /\ documents' = <<>>
                /\ page_num' = 0
                /\ page_log' = <<>>
                /\ pc' = "pages"
                /\ UNCHANGED <<all_stats, file_idx, exit_code, previous_tail>>
           ELSE /\ FileFailed(pdf.name, "cannot open")
                /\ stats' = NewStats(pdf.name)
                /\ UNCHANGED <<open_docs, documents, previous_tail, page_num, page_log>>
    /\ UNCHANGED <<graph, rerun, OPENAI_API_KEY, MONGO_URI, OVERLAP_SIZE, folder, pdf_files, totals,
                   collection, write_calls, last, now>>

OpenPdf ==
    /\ pc = "files"
    /\ file_idx <= Len(pdf_files)
    /\ LET pdf == pdf_files[file_idx]
       IN  IF pdf.openable
           THEN /\ open_docs' = open_docs \cup {file_idx}
                /\ stats' = [NewStats(pdf.name) EXCEPT !.total_pages = Len(pdf.pages)]
                /\ documents' = <<>>
                /\ previous_tail' = ""
                /\ page_num' = 0
                /\ page_log' = <<>>
                /\ pc' = "pages"
                /\ UNCHANGED <<all_stats, file_idx, exit_code>>
           ELSE /\ FileFailed(pdf.name, "cannot open")
                /\ stats' = NewStats(pdf.name)
                /\ UNCHANGED <<open_docs, documents, previous_tail, page_num, page_log>>
    /\ UNCHANGED <<graph, rerun, OPENAI_API_KEY, MONGO_URI, OVERLAP_SIZE, folder, pdf_files, totals,
                   collection, write_calls, last, now>>

(***************************************************************************)
(* process_pdf, one turn of the page loop (381-438)                         *)
(***************************************************************************)
\* 397-405
CountMode(st, mode) ==
    IF mode = "TEXT_ONLY" THEN [st EXCEPT !.text_only_pages = @ + 1]
    ELSE IF mode = "TEXT_WITH_IMAGES" THEN [st EXCEPT !.text_with_images_pages = @ + 1]
    ELSE IF mode = "VISION_FULL" THEN [st EXCEPT !.vision_full_pages = @ + 1]
    ELSE IF mode = "HYBRID" THEN [st EXCEPT !.hybrid_pages = @ + 1]
    ELSE st

\* 407-410
CountImages(st, content) ==
    IF Contains(content, "[IMAGE")
    THEN [st EXCEPT !.total_images_analyzed = @ + Count(content, "[IMAGE")]
    ELSE st

\* the minimum written as 5
TooShort_Five(content) == Len(strip(content)) < 5

\* the minimum applied to what the page itself contributes
TooShort_WithoutPrefix(content) ==
    Len(strip(content)) - Len(OverlapPrefix(previous_tail)) < 50

\* 412-413: the page is too short to keep
TooShort(content) == Len(strip(content)) < 50

\* has_overlap set when the content carries a continuation block
NewDocument_PrefixFlag(file_name, real_page, content, mode) ==
    [page_content |-> content,
     metadata |-> [source |-> file_name, page |-> real_page, type |-> "hybrid_book_page",
                   processing_mode |-> mode,
                   has_overlap |-> Contains(content, "[...onceki sayfadan devam...]"),
                   processed_at |-> now]]

\* 418-431
NewDocument(file_name, real_page, content, mode) ==
    [page_content |-> content,
     metadata |-> [source |-> file_name, page |-> real_page, type |-> "hybrid_book_page",
                   processing_mode |-> mode, has_overlap |-> OVERLAP_SIZE > 0,
                   processed_at |-> now]]

\* no handler around the page: the exception leaves process_pdf and main
\* records the file with the error
PageFailed_Reraise ==
    /\ FileFailed(pdf_files[file_idx].name, "page error")
    /\ page_log' = Append(page_log, "FAILED")
    /\ page_num' = page_num + 1
    /\ UNCHANGED <<stats, previous_tail, documents>>

\* the handler tries the page again
PageFailed_Retry ==
    /\ stats' = [stats EXCEPT !.skipped_pages = @ + 1]
    /\ page_log' = Append(page_log, "FAILED")
    /\ UNCHANGED <<page_num, previous_tail, documents, pc, file_idx, all_stats, exit_code>>

\* the handler goes on without counting the page
PageFailed_NotCounted ==
    /\ page_log' = Append(page_log, "FAILED")
    /\ page_num' = page_num + 1
    /\ UNCHANGED <<stats, previous_tail, documents, pc, file_idx, all_stats, exit_code>>

\* the handler drops the carried overlap
PageFailed_ClearsTail ==
    /\ stats' = [stats EXCEPT !.skipped_pages = @ + 1]
    /\ page_log' = Append(page_log, "FAILED")
    /\ page_num' = page_num + 1
    /\ previous_tail' = ""
    /\ UNCHANGED <<documents, pc, file_idx, all_stats, exit_code>>

\* the handler of 435-438: the page is counted as skipped, the loop goes on
PageFailed ==
    /\ stats' = [stats EXCEPT !.skipped_pages = @ + 1]
    /\ page_log' = Append(page_log, "FAILED")
    /\ page_num' = page_num + 1
    /\ UNCHANGED <<previous_tail, documents, pc, file_idx, all_stats, exit_code>>

\* the new Document put at the head of the batch
PageReturned_Prepend(file_name, real_page, r) ==
    \E counted \in {CountImages(CountMode(stats, r.mode), r.content)} :
        /\ previous_tail' = r.new_tail
        /\ IF TooShort(r.content)
           THEN /\ stats' = [counted EXCEPT !.skipped_pages = @ + 1]
                /\ page_log' = Append(page_log, "SKIPPED")
                /\ UNCHANGED documents
           ELSE /\ stats' = counted
                /\ page_log' = Append(page_log, "KEPT")
                /\ documents' = <<NewDocument(file_name, real_page, r.content, r.mode)>>
                                   \o documents
        /\ page_num' = page_num + 1
        /\ UNCHANGED <<pc, file_idx, all_stats, exit_code>>

\* the mode counted only for a page that is kept
PageReturned_CountsKeptOnly(file_name, real_page, r) ==
    \E counted \in {CountImages(CountMode(stats, r.mode), r.content)} :
        /\ previous_tail' = r.new_tail
        /\ IF TooShort(r.content)
           THEN /\ stats' = [CountImages(stats, r.content) EXCEPT !.skipped_pages = @ + 1]
                /\ page_log' = Append(page_log, "SKIPPED")
                /\ UNCHANGED documents
           ELSE /\ stats' = counted
                /\ page_log' = Append(page_log, "KEPT")
                /\ documents' = Append(documents,
                       NewDocument(file_name, real_page, r.content, r.mode))
        /\ page_num' = page_num + 1
        /\ UNCHANGED <<pc, file_idx, all_stats, exit_code>>

\* 389-433: process_page_hybrid returned r
PageReturned(file_name, real_page, r) ==
    \E counted \in {CountImages(CountMode(stats, r.mode), r.content)} :
        /\ previous_tail' = r.new_tail
        /\ IF TooShort(r.content)
           THEN /\ stats' = [counted EXCEPT !.skipped_pages = @ + 1]
                /\ page_log' = Append(page_log, "SKIPPED")
                /\ UNCHANGED documents
           ELSE /\ stats' = counted
                /\ page_log' = Append(page_log, "KEPT")
                /\ documents' = Append(documents,
                       NewDocument(file_name, real_page, r.content, r.mode))
        /\ page_num' = page_num + 1
        /\ UNCHANGED <<pc, file_idx, all_stats, exit_code>>

ProcessPage ==
    /\ pc = "pages"
    /\ page_num < Len(pdf_files[file_idx].pages)
    /\ LET pdf == pdf_files[file_idx]
           page == pdf.pages[page_num + 1]
           real_page == page_num + 1
       IN  \E env \in Envs(page) :
           \E r \in {process_page_hybrid(page, real_page, previous_tail, env)} :
                 /\ last' = [page |-> real_page, tail_in |-> previous_tail,
                             images_listed |-> ~env.images_raises,
                             raised |-> r.raised, content |-> r.content,
                             new_tail |-> r.new_tail, mode |-> r.mode, calls |-> r.calls]
                 /\ IF r.raised THEN PageFailed ELSE PageReturned(pdf.name, real_page, r)
    /\ now' = now + 1
    /\ UNCHANGED <<graph, rerun, OPENAI_API_KEY, MONGO_URI, OVERLAP_SIZE, folder, pdf_files,
                   totals, open_docs, collection, write_calls>>

(***************************************************************************)
(* process_pdf after the page loop (440-453), back in main's loop           *)
(* (526-530).  add_documents either persists the batch or raises, having    *)
(* persisted a part of it (no transaction spans the batch); when it raises, *)
(* lines 444-447 are not reached and main records the file with the error.  *)
(***************************************************************************)
FinishPdf ==
    /\ pc = "pages"
    /\ page_num = Len(pdf_files[file_idx].pages)
    /\ IF documents = <<>>
       THEN /\ open_docs' = open_docs \ {file_idx}
            /\ FileDone(stats)
            /\ UNCHANGED <<stats, collection, write_calls>>
       ELSE \E accepted \in BOOLEAN, persisted \in 0..Len(documents) :
            /\ write_calls' = Append(write_calls,
                   [file |-> file_idx, batch |-> documents, ok |-> accepted])
            /\ IF accepted
               THEN /\ persisted = Len(documents)
                    /\ collection' = collection \o documents
                    /\ stats' = [stats EXCEPT !.documents_added = Len(documents)]
                    /\ open_docs' = open_docs \ {file_idx}
                    /\ FileDone(stats')
               ELSE /\ persisted < Len(documents)
                    /\ collection' = collection \o SubSeq(documents, 1, persisted)
                    /\ FileFailed(pdf_files[file_idx].name, "write failed")
                    /\ UNCHANGED <<stats, open_docs>>
    /\ UNCHANGED <<graph, rerun, OPENAI_API_KEY, MONGO_URI, OVERLAP_SIZE, folder, pdf_files, totals,
                   documents, previous_tail, page_num, page_log, last, now>>

(***************************************************************************)
(* main, the summary (532-576)                                              *)
(***************************************************************************)
RECURSIVE SumOf(_, _)
SumOf(entries, key) ==
    IF entries = <<>> THEN 0
    ELSE (IF "error" \in DOMAIN Head(entries) THEN 0 ELSE Head(entries)[key])
         + SumOf(Tail(entries), key)

Summary ==
    /\ pc = "files"
    /\ file_idx > Len(pdf_files)
    /\ totals' = [total_pages |-> SumOf(all_stats, "total_pages"),
                  total_text_only |-> SumOf(all_stats, "text_only_pages"),
                  total_text_with_images |-> SumOf(all_stats, "text_with_images_pages"),
                  total_vision_full |-> SumOf(all_stats, "vision_full_pages"),
                  total_hybrid |-> SumOf(all_stats, "hybrid_pages"),
                  total_skipped |-> SumOf(all_stats, "skipped_pages"),
                  total_docs |-> SumOf(all_stats, "documents_added"),
                  total_images |-> SumOf(all_stats, "total_images_analyzed")]
    /\ pc' = "done"
    /\ exit_code' = 0
    /\ UNCHANGED <<graph, rerun, OPENAI_API_KEY, MONGO_URI, OVERLAP_SIZE, folder, pdf_files, file_idx,
                   all_stats, stats, documents, previous_tail, page_num, open_docs,
                   collection, write_calls, page_log, last, now>>

Next == Start \/ OpenPdf \/ ProcessPage \/ FinishPdf \/ Summary

Spec == Init /\ [][Next]_vars

\* main is one sequential thread: a step that can be taken is taken
FairSpec == Spec /\ WF_vars(Next)

(***************************************************************************)
(* The page pipeline run twice over the pages of one file (the page loop of *)
(* process_pdf, 378-438, without the store): the first pass takes whatever  *)
(* the environment answers, the second pass gets, for every request the     *)
(* first pass made, the answer the first pass got.  The clock moves on      *)
(* between the passes.                                                      *)
(***************************************************************************)
RerunPagePool == {PlainPage, ScanPage, FigureImagePage, PicturePage}

RerunBooks == SeqsUpTo(RerunPagePool, MaxImagePages)

RerunInit ==
    /\ OPENAI_API_KEY = "sk-key"
    /\ MONGO_URI = "mongodb://host"
    /\ OVERLAP_SIZE \in OverlapSizes
    /\ folder \in {[exists |-> TRUE, files |-> <<PdfFile("book.pdf", "book.pdf", TRUE, pages)>>] :
                      pages \in RerunBooks}
    /\ pc = "rerun"
    /\ pdf_files = <<>>
    /\ file_idx = 0
    /\ all_stats = <<>>
    /\ totals = NoTotals
    /\ exit_code = -1
    /\ stats = NoStats
    /\ documents = <<>>
    /\ previous_tail = ""
    /\ page_num = 0
    /\ open_docs = {}
    /\ collection = <<>>
    /\ write_calls = <<>>
    /\ page_log = <<>>
    /\ last = NoPage
    /\ now = 0
    /\ rerun = [NoRerun EXCEPT !.pass = 1]
    /\ graph = NoGraph

\* the environment of a pass answers as it answered the requests logged in before
SameResponses(env, r, before) ==
    /\ ~env.images_raises = before.images_listed
    /\ \A c \in DOMAIN r.calls : \A b \in DOMAIN before.calls :
          (r.calls[c].prompt = before.calls[b].prompt /\ r.calls[c].image = before.calls[b].image)
              => (r.calls[c].ok = before.calls[b].ok /\ r.calls[c].answer = before.calls[b].answer)

\* one turn of the page loop (381-438): the result of the page and the tail carried on
RerunPage ==
    /\ pc = "rerun"
    /\ rerun.page_num < Len(folder.files[1].pages)
    /\ LET real_page == rerun.page_num + 1
           page == folder.files[1].pages[real_page]
       IN  \E env \in Envs(page) :
           \E r \in {process_page_hybrid(page, real_page, rerun.previous_tail, env)} :
               /\ rerun.pass = 2 => SameResponses(env, r, rerun.first[real_page])
               /\ \E carried \in {IF r.raised THEN rerun.previous_tail ELSE r.new_tail} :
                  \E result \in {[images_listed |-> ~env.images_raises, raised |-> r.raised,
                                  content |-> r.content, mode |-> r.mode, calls |-> r.calls,
                                  tail |-> carried, processed_at |-> now]} :
                      rerun' = [rerun EXCEPT
                                  !.page_num = real_page,
                                  !.previous_tail = carried,
                                  !.first = IF rerun.pass = 1 THEN Append(@, result) ELSE @,
                                  !.second = IF rerun.pass = 2 THEN Append(@, result) ELSE @]
    /\ now' = now + 1
    /\ UNCHANGED <<graph, OPENAI_API_KEY, MONGO_URI, OVERLAP_SIZE, folder, pc, pdf_files,
                   file_idx, all_stats, totals, exit_code, stats, documents, previous_tail,
                   page_num, open_docs, collection, write_calls, page_log, last>>

\* the file is opened again: process_pdf starts over (378-379)
RerunAgain ==
    /\ pc = "rerun"
    /\ rerun.pass = 1
    /\ rerun.page_num = Len(folder.files[1].pages)
    /\ rerun' = [rerun EXCEPT !.pass = 2, !.page_num = 0, !.previous_tail = ""]
    /\ now' = now + 1
    /\ UNCHANGED <<graph, OPENAI_API_KEY, MONGO_URI, OVERLAP_SIZE, folder, pc, pdf_files,
                   file_idx, all_stats, totals, exit_code, stats, documents, previous_tail,
                   page_num, open_docs, collection, write_calls, page_log, last>>

RerunNext == RerunPage \/ RerunAgain

RerunSpec == RerunInit /\ [][RerunNext]_vars

(***************************************************************************)
(* One run of the conversational graph: app.invoke on the state a caller    *)
(* prepared.  _vector_store (retrieval_node.py 92-96) may be cached from an *)
(* earlier run of the same process.                                         *)
(***************************************************************************)
\* app.invoke(inputs): the graph stands at its entry point (graph.py 149)
GraphInit ==
    /\ OPENAI_API_KEY \in {"", "sk-key"}
    /\ MONGO_URI \in {"", "mongodb://host"}
    /\ OVERLAP_SIZE = 0
    /\ folder = [exists |-> FALSE, files |-> <<>>]
    /\ pc = "graph"
    /\ pdf_files = <<>>
    /\ file_idx = 0
    /\ all_stats = <<>>
    /\ totals = NoTotals
    /\ exit_code = -1
    /\ stats = NoStats
    /\ documents = <<>>
    /\ previous_tail = ""
    /\ page_num = 0
    /\ open_docs = {}
    /\ collection = <<>>
    /\ write_calls = <<>>
    /\ page_log = <<>>
    /\ last = NoPage
    /\ now = 0
    /\ rerun = NoRerun
    /\ \E image_bytes \in {None, "aGFuZA=="},
          remembered_report \in {None, "Hand Shape: Conic. Heart Line: curved."},
          cached \in BOOLEAN :
          /\ cached => (OPENAI_API_KEY # "" /\ MONGO_URI # "")
          /\ graph = [at |-> "vision_scanner",
                      state |-> create_initial_state(image_bytes, remembered_report),
                      ran |-> <<>>,
                      vector_store |-> cached]

\* graph.py 123, 149
vision_scanner ==
    /\ pc = "graph"
    /\ graph.at = "vision_scanner"
    /\ \E answer \in VisionAnswers :
       \E output \in {vision_analysis_node(graph.state, answer)} :
           graph' = [graph EXCEPT !.state = Updated(@, output),
                                  !.ran = Append(@, Ran("vision_scanner", output)),
                                  !.at = "route_after_vision"]
    /\ UNCHANGED <<rerun, OPENAI_API_KEY, MONGO_URI, OVERLAP_SIZE, folder, pc, pdf_files,
                   file_idx, all_stats, totals, exit_code, stats, documents, previous_tail,
                   page_num, open_docs, collection, write_calls, page_log, last, now>>

\* the conditional edge after vision_scanner (graph.py 156-164)
conditional_edge ==
    /\ pc = "graph"
    /\ graph.at = "route_after_vision"
    /\ graph' = [graph EXCEPT !.at = IF route_after_vision(graph.state) = "continue"
                                     THEN "knowledge_retriever"
                                     ELSE "END"]
    /\ UNCHANGED <<rerun, OPENAI_API_KEY, MONGO_URI, OVERLAP_SIZE, folder, pc, pdf_files,
                   file_idx, all_stats, totals, exit_code, stats, documents, previous_tail,
                   page_num, open_docs, collection, write_calls, page_log, last, now>>

\* graph.py 129, 171: after the node the edge leads to fortune_teller; an exception
\* that leaves the node leaves app.invoke
knowledge_retriever ==
    /\ pc = "graph"
    /\ graph.at = "knowledge_retriever"
    /\ \E connected \in BOOLEAN, search \in SearchAnswers :
       \E r \in {retrieval_node(graph.state, graph.vector_store, connected, search)} :
           graph' = IF r.raised
                    THEN [graph EXCEPT !.ran = Append(@, Ran("knowledge_retriever", None)),
                                       !.at = "RAISED"]
                    ELSE [graph EXCEPT
                            !.state = Updated(@, r.output),
                            !.ran = Append(@, Ran("knowledge_retriever", r.output)),
                            !.vector_store =
                                @ \/ ~(Falsy(graph.state.visual_analysis_report)
                                         \/ OPENAI_API_KEY = "" \/ MONGO_URI = ""),
                            !.at = "fortune_teller"]
    /\ UNCHANGED <<rerun, OPENAI_API_KEY, MONGO_URI, OVERLAP_SIZE, folder, pc, pdf_files,
                   file_idx, all_stats, totals, exit_code, stats, documents, previous_tail,
                   page_num, open_docs, collection, write_calls, page_log, last, now>>

\* graph.py 135, 175
fortune_teller ==
    /\ pc = "graph"
    /\ graph.at = "fortune_teller"
    /\ \E answer \in PersonaAnswers :
       \E output \in {persona_node(graph.state, answer)} :
           graph' = [graph EXCEPT !.state = Updated(@, output),
                                  !.ran = Append(@, Ran("fortune_teller", output)),
                                  !.at = "END"]
    /\ UNCHANGED <<rerun, OPENAI_API_KEY, MONGO_URI, OVERLAP_SIZE, folder, pc, pdf_files,
                   file_idx, all_stats, totals, exit_code, stats, documents, previous_tail,
                   page_num, open_docs, collection, write_calls, page_log, last, now>>

GraphNext == vision_scanner \/ conditional_edge \/ knowledge_retriever \/ fortune_teller

GraphSpec == GraphInit /\ [][GraphNext]_vars

(***************************************************************************)
(* Vocabulary of the properties.                                            *)
(***************************************************************************)
CurrentPdf == pdf_files[file_idx]

\* process_pdf is in its page loop and has handled a page: last is that page
PageHandled == pc = "pages" /\ page_num >= 1

LastPage == CurrentPdf.pages[page_num]
LastRawText == strip(LastPage.text)

StartsWith(s, prefix) == Len(prefix) <= Len(s) /\ SubSeq(s, 1, Len(prefix)) = prefix

\* the last OVERLAP_SIZE characters of a page's native text, or all of it
TextTail(text) ==
    LET t == strip(text)
    IN  IF Len(t) > OVERLAP_SIZE THEN SubSeq(t, Len(t) - OVERLAP_SIZE + 1, Len(t)) ELSE t

\* the continuation block that carries tail into a page's content
Continuation(tail) == "[...onceki sayfadan devam...]\n" \o tail \o "\n\n"

\* an embedded image the extractor is specified to keep: it decodes and has at
\* least MIN_IMAGE_SIZE bytes
Retained(img) == ~img.corrupt /\ img.bytes >= MIN_IMAGE_SIZE

\* an embedded image the extractor is specified to discard as too small
Undersized(img) == ~img.corrupt /\ img.bytes < MIN_IMAGE_SIZE

ImageTag(img_idx, page_no) ==
    "[IMAGE " \o ToString(img_idx) \o " - Page " \o ToString(page_no) \o "]"

(***************************************************************************)
(* C1.  With OVERLAP_SIZE > 0, the overlap prefix at the start of the       *)
(* content of page n >= 2 is the last OVERLAP_SIZE characters (or the whole *)
(* text if shorter) of page n-1's native text, whatever happened to page    *)
(* n-1, also when it was skipped or raised.                                 *)
(***************************************************************************)
C1_PrefixIsTailOfPreviousPage ==
    (PageHandled /\ page_num >= 2 /\ OVERLAP_SIZE > 0 /\ ~last.raised) =>
        LET expected == TextTail(CurrentPdf.pages[page_num - 1].text)
        IN  /\ last.tail_in = expected
            /\ expected # "" => StartsWith(last.content, Continuation(expected))

(***************************************************************************)
(* C2.  A page whose trimmed native text is shorter than MIN_TEXT_LENGTH is *)
(* classified VISION_FULL, whatever keywords the text holds and however     *)
(* many embedded images the page has; the record kept for it carries that   *)
(* mode.                                                                    *)
(***************************************************************************)
C2_ShortPageIsVisionFull ==
    (PageHandled /\ Len(LastRawText) < MIN_TEXT_LENGTH) =>
        /\ last.mode = "VISION_FULL"
        /\ page_log[page_num] = "KEPT" =>
               documents[Len(documents)].metadata.processing_mode = "VISION_FULL"

\* a short page with a diagram keyword and an embedded image came out VISION_FULL
C2_Witness ==
    /\ PageHandled
    /\ ~last.raised
    /\ Len(LastRawText) < MIN_TEXT_LENGTH
    /\ KeywordGate(LastRawText)
    /\ LastPage.images # <<>>
    /\ last.mode = "VISION_FULL"
    /\ page_log[page_num] = "KEPT"

(***************************************************************************)
(* C3.  A page with native text of at least MIN_TEXT_LENGTH characters, no  *)
(* diagram keyword and one or more retained embedded images is classified   *)
(* TEXT_WITH_IMAGES, also when the interpreter fails on some or all of      *)
(* those images.                                                            *)
(***************************************************************************)
C3_RetainedImagesGiveTextWithImages ==
    ( /\ PageHandled
      /\ ~last.raised
      /\ Len(LastRawText) >= MIN_TEXT_LENGTH
      /\ ~KeywordGate(LastRawText)
      /\ \E i \in DOMAIN LastPage.images : Retained(LastPage.images[i]) )
    => last.mode = "TEXT_WITH_IMAGES"

(***************************************************************************)
(* C4.  A page with native text of at least MIN_TEXT_LENGTH characters, no  *)
(* diagram keyword and no retained embedded image is TEXT_ONLY, its content *)
(* is the overlap prefix (if any) followed by the raw text, and no          *)
(* interpreter call is made for it.                                         *)
(***************************************************************************)
C4_PlainPageIsTextOnly ==
    ( /\ PageHandled
      /\ ~last.raised
      /\ Len(LastRawText) >= MIN_TEXT_LENGTH
      /\ ~KeywordGate(LastRawText)
      /\ \A i \in DOMAIN LastPage.images : ~Retained(LastPage.images[i]) )
    => /\ last.mode = "TEXT_ONLY"
       /\ last.content =
              (IF last.tail_in # "" /\ OVERLAP_SIZE > 0
               THEN Continuation(last.tail_in) ELSE "") \o LastRawText
       /\ last.calls = <<>>

(***************************************************************************)
(* C5.  For an embedded image whose decoded length is below MIN_IMAGE_SIZE  *)
(* (50 bytes or fewer included) no interpreter call is made and no          *)
(* description of it appears in the page's content.                         *)
(***************************************************************************)
C5_UndersizedImageNeverInterpreted ==
    PageHandled =>
        \A i \in DOMAIN LastPage.images :
            Undersized(LastPage.images[i]) =>
                /\ \A c \in DOMAIN last.calls : last.calls[c].image # i
                /\ ~Contains(last.content, ImageTag(i, page_num))

(***************************************************************************)
(* C6.  A page whose assembled content trims to fewer than 50 characters    *)
(* is not added to the write batch, raises skipped_pages by exactly one and *)
(* is logged as skipped, not failed; no batch handed to the vector store    *)
(* holds such a page, and when every page of a file is dropped this way no  *)
(* write call is made for the file.                                         *)
(***************************************************************************)
C6_ShortContentIsSkippedNotWritten ==
    [][ /\ (page_num' = page_num + 1 /\ ~last'.raised /\ Len(strip(last'.content)) < 50) =>
              /\ documents' = documents
              /\ stats'.skipped_pages = stats.skipped_pages + 1
              /\ page_log'[page_num'] = "SKIPPED"
        /\ \A w \in DOMAIN write_calls' :
              /\ write_calls'[w].batch # <<>>
              /\ \A d \in DOMAIN write_calls'[w].batch :
                     Len(strip(write_calls'[w].batch[d].page_content)) >= 50
        /\ ( /\ pc = "pages"
             /\ pc' = "files"
             /\ \A k \in DOMAIN page_log : page_log[k] = "SKIPPED" ) =>
              /\ write_calls' = write_calls
              /\ "error" \notin DOMAIN all_stats'[Len(all_stats')]
      ]_vars

\* a file all of whose pages were dropped as too short has been finished
\* without a write call, its statistics counting each page as skipped
C6_Witness ==
    /\ pc = "files"
    /\ file_idx = 2
    /\ page_log # <<>>
    /\ \A k \in DOMAIN page_log : page_log[k] = "SKIPPED"
    /\ Len(strip(last.content)) < 50
    /\ write_calls = <<>>
    /\ "error" \notin DOMAIN all_stats[1]
    /\ all_stats[1].skipped_pages = Len(page_log)

(***************************************************************************)
(* C7.  When processing a page raises, the page loop goes on: it is left    *)
(* only after the last page, every later page whose content reaches 50      *)
(* characters is added to the batch, and the batch is handed to the vector  *)
(* store.                                                                   *)
(***************************************************************************)
C7_LaterPagesSurviveAPageError ==
    [][ /\ (pc = "pages" /\ pc' # "pages") => page_num = Len(CurrentPdf.pages)
        /\ ( /\ pc = "pages"
             /\ page_num' = page_num + 1
             /\ \E k \in DOMAIN page_log : page_log[k] = "FAILED"
             /\ ~last'.raised
             /\ Len(strip(last'.content)) >= 50 ) =>
              /\ Len(documents') = Len(documents) + 1
              /\ SubSeq(documents', 1, Len(documents)) = documents
              /\ documents'[Len(documents')].page_content = last'.content
              /\ documents'[Len(documents')].metadata.page = page_num'
        /\ (pc = "pages" /\ pc' # "pages" /\ documents # <<>>) =>
              /\ Len(write_calls') = Len(write_calls) + 1
              /\ write_calls'[Len(write_calls')].batch = documents
      ]_vars

\* a file was finished in which a page raised and a later page was written
C7_Witness ==
    /\ pc = "files"
    /\ write_calls # <<>>
    /\ \E k, j \in DOMAIN page_log :
          /\ k < j
          /\ page_log[k] = "FAILED"
          /\ page_log[j] = "KEPT"
          /\ \E d \in DOMAIN write_calls[Len(write_calls)].batch :
                 write_calls[Len(write_calls)].batch[d].metadata.page = j
          /\ write_calls[Len(write_calls)].file = file_idx - 1

(***************************************************************************)
(* C8.  A file that cannot be opened ends in the aggregated statistics as   *)
(* an entry with its name and an error string and no page counts; every     *)
(* other file of the run still has its entry, and when it opens its pages   *)
(* were processed and its batch was handed to the vector store.             *)
(***************************************************************************)
WriteCallsOf(i) == {w \in DOMAIN write_calls : write_calls[w].file = i}

C8_OpenFailureIsContained ==
    (pc = "done" /\ \E i \in DOMAIN pdf_files : ~pdf_files[i].openable) =>
        /\ Len(all_stats) = Len(pdf_files)
        /\ \A i \in DOMAIN pdf_files :
              /\ all_stats[i].file_name = pdf_files[i].name
              /\ IF ~pdf_files[i].openable
                 THEN /\ DOMAIN all_stats[i] = {"file_name", "error"}
                      /\ WriteCallsOf(i) = {}
                 ELSE IF "error" \in DOMAIN all_stats[i]
                 THEN \E w \in WriteCallsOf(i) : ~write_calls[w].ok
                 ELSE /\ all_stats[i].total_pages = Len(pdf_files[i].pages)
                      /\ all_stats[i].documents_added > 0 =>
                            \E w \in WriteCallsOf(i) :
                                /\ write_calls[w].ok
                                /\ Len(write_calls[w].batch) = all_stats[i].documents_added
                                /\ \A d \in DOMAIN write_calls[w].batch :
                                       \E c \in DOMAIN collection :
                                           collection[c] = write_calls[w].batch[d]

\* the run ended; a file that could not be opened came before a file whose
\* documents were written
C8_Witness ==
    /\ pc = "done"
    /\ \E i, j \in DOMAIN pdf_files :
          /\ i < j
          /\ ~pdf_files[i].openable
          /\ "error" \in DOMAIN all_stats[i]
          /\ "error" \notin DOMAIN all_stats[j]
          /\ all_stats[j].documents_added > 0
          /\ collection # <<>>

(***************************************************************************)
(* C9.  The PDF handle process_pdf opens is closed on every path out of it, *)
(* a rejected write batch included, before the next file is opened: no      *)
(* handle is open between two files or at the end, and never two at once.   *)
(***************************************************************************)
C9_HandleClosedOnEveryExit ==
    /\ Cardinality(open_docs) <= 1
    /\ pc \in {"files", "done"} => open_docs = {}

(***************************************************************************)
(* C10.  When the vector store rejects a file's batch, the run goes on: the *)
(* file is recorded in the aggregated statistics with the error, no second  *)
(* write call is made for it, and every later file gets its entry, with its *)
(* pages processed when it opens.                                           *)
(***************************************************************************)
C10_WriteFailureIsContained ==
    \A w \in DOMAIN write_calls :
        ~write_calls[w].ok =>
            LET i == write_calls[w].file
            IN  /\ pc # "exited"
                /\ Len(all_stats) >= i
                /\ DOMAIN all_stats[i] = {"file_name", "error"}
                /\ all_stats[i].file_name = pdf_files[i].name
                /\ WriteCallsOf(i) = {w}
                /\ pc = "done" =>
                      /\ Len(all_stats) = Len(pdf_files)
                      /\ \A j \in (i + 1)..Len(pdf_files) :
                            /\ all_stats[j].file_name = pdf_files[j].name
                            /\ (pdf_files[j].openable /\ "error" \notin DOMAIN all_stats[j]) =>
                                   all_stats[j].total_pages = Len(pdf_files[j].pages)
                            /\ (pdf_files[j].openable /\ "error" \in DOMAIN all_stats[j]) =>
                                   \E v \in WriteCallsOf(j) : ~write_calls[v].ok

\* the run ended; the batch of one file was rejected and the documents of a
\* later file were written
C10_Witness ==
    /\ pc = "done"
    /\ \E w, v \in DOMAIN write_calls :
          /\ ~write_calls[w].ok
          /\ write_calls[v].ok
          /\ write_calls[w].file < write_calls[v].file
          /\ all_stats[write_calls[v].file].documents_added > 0

(***************************************************************************)
(* C11.  Every page of an opened file is processed exactly once, in one     *)
(* pass (a page that raised is not tried again, an outcome once logged is   *)
(* not revised), and when the file is finished each page is in exactly one  *)
(* of the states WRITTEN (in the batch of an accepted write, once), SKIPPED *)
(* (content too short, in no batch) or FAILED (its processing or the write  *)
(* raised).                                                                 *)
(***************************************************************************)
\* how many records of batch are of page k
RecordsOfPage(batch, k) ==
    Cardinality({d \in DOMAIN batch : batch[d].metadata.page = k})

C11_EachPageEndsInOneTerminalState ==
    [][ /\ Len(page_log') = page_num'
        /\ \A k \in DOMAIN page_log' : page_log'[k] \in {"KEPT", "SKIPPED", "FAILED"}
        /\ file_idx' >= file_idx
        /\ (pc = "pages" /\ pc' = "pages") =>
              /\ file_idx' = file_idx
              /\ page_num' = page_num + 1
              /\ last'.page = page_num'
              /\ SubSeq(page_log', 1, page_num) = page_log
              /\ last'.raised <=> page_log'[page_num'] = "FAILED"
        /\ (pc = "pages" /\ pc' # "pages") =>
              LET calls == {w \in DOMAIN write_calls' : write_calls'[w].file = file_idx}
                  Written(k) == \E w \in calls :
                                    /\ write_calls'[w].ok
                                    /\ RecordsOfPage(write_calls'[w].batch, k) = 1
                  Forwarded(k) == \E w \in calls :
                                      RecordsOfPage(write_calls'[w].batch, k) > 0
                  Skipped(k) == page_log[k] = "SKIPPED" /\ ~Forwarded(k)
                  Failed(k) == \/ page_log[k] = "FAILED" /\ ~Forwarded(k)
                               \/ /\ page_log[k] = "KEPT"
                                  /\ \E w \in calls : ~write_calls'[w].ok
              IN  /\ page_num = Len(pdf_files[file_idx].pages)
                  /\ Cardinality(calls) <= 1
                  /\ \A k \in 1..page_num :
                        /\ Written(k) \/ Skipped(k) \/ Failed(k)
                        /\ ~(Written(k) /\ Skipped(k))
                        /\ ~(Written(k) /\ Failed(k))
                        /\ ~(Skipped(k) /\ Failed(k))
                        /\ Written(k) <=> (page_log[k] = "KEPT" /\ \A w \in calls : write_calls'[w].ok)
      ]_vars

\* a file was finished with a failed, a skipped and a written page
C11_Witness ==
    /\ pc = "files"
    /\ file_idx = 2
    /\ pdf_files[1].openable
    /\ {page_log[k] : k \in DOMAIN page_log} = {"KEPT", "SKIPPED", "FAILED"}
    /\ Len(page_log) = Len(pdf_files[1].pages)
    /\ write_calls # <<>>
    /\ write_calls[Len(write_calls)].ok
    /\ write_calls[Len(write_calls)].file = 1

(***************************************************************************)
(* C12.  Once the run has entered the loop over the files it does not exit  *)
(* before the summary, whatever fails on the way, and it reaches the        *)
(* summary; the aggregated statistics then hold exactly one entry per file  *)
(* found, in the order find_pdfs returned them.                             *)
(***************************************************************************)
C12_RunAlwaysReachesSummary ==
    /\ [](pc \in {"files", "pages"} => exit_code = -1)
    /\ [](pc = "exited" => file_idx = 0)
    /\ (pc = "files") ~> (pc = "done")
    /\ [](pc = "done" =>
            /\ Len(all_stats) = Len(pdf_files)
            /\ \A i \in DOMAIN pdf_files : all_stats[i].file_name = pdf_files[i].name)

\* the summary was reached after a file failed and another had a failed page
C12_Witness ==
    /\ pc = "done"
    /\ Len(pdf_files) >= 2
    /\ \E i, j \in DOMAIN all_stats :
          /\ "error" \in DOMAIN all_stats[i]
          /\ "error" \notin DOMAIN all_stats[j]
          /\ all_stats[j].skipped_pages > 0

(***************************************************************************)
(* C13.  The k-th page process_pdf processes is page k of the file, and the *)
(* records collected for the write batch, and every batch handed to the     *)
(* vector store, are in strictly increasing page order (none out of order,  *)
(* none twice).                                                             *)
(***************************************************************************)
IncreasingPages(batch) ==
    \A a, b \in DOMAIN batch : a < b => batch[a].metadata.page < batch[b].metadata.page

C13_PagesAndRecordsInPageOrder ==
    /\ PageHandled => last.page = page_num
    /\ pc = "pages" => IncreasingPages(documents)
    /\ \A w \in DOMAIN write_calls : IncreasingPages(write_calls[w].batch)

\* a batch with the records of pages 1 and 3 was handed over, page 2 left out
C13_Witness ==
    \E w \in DOMAIN write_calls :
        /\ Len(write_calls[w].batch) = 2
        /\ write_calls[w].batch[1].metadata.page = 1
        /\ write_calls[w].batch[2].metadata.page = 3

(***************************************************************************)
(* C14.  The first page of every file is processed with an empty carried    *)
(* overlap: its content starts with no continuation block, and nothing of   *)
(* the file processed before is carried into it.                            *)
(***************************************************************************)
C14_FirstPageHasNoCarriedOverlap ==
    (PageHandled /\ page_num = 1) =>
        /\ last.tail_in = ""
        /\ ~Contains(last.content, "[...onceki sayfadan devam...]")
        /\ \A f \in 1..(file_idx - 1) :
              \A k \in DOMAIN pdf_files[f].pages :
                  TextTail(pdf_files[f].pages[k].text) # "" =>
                      ~StartsWith(last.content,
                                  Continuation(TextTail(pdf_files[f].pages[k].text)))

\* with an overlap configured, the first page of a second file was kept after
\* a first file whose last page left a tail
C14_Witness ==
    /\ PageHandled
    /\ page_num = 1
    /\ file_idx = 2
    /\ OVERLAP_SIZE > 0
    /\ pdf_files[1].openable
    /\ "error" \notin DOMAIN all_stats[1]
    /\ all_stats[1].skipped_pages = 0
    /\ ~last.raised
    /\ page_log[1] = "KEPT"

(***************************************************************************)
(* C15.  On a page whose native text has at least MIN_TEXT_LENGTH           *)
(* characters and a diagram keyword, when the interpreter answers the       *)
(* diagram-only prompt with NO_DIAGRAMS_FOUND, the content has no diagram   *)
(* analysis section, the page is HYBRID, hybrid_pages is raised by one and  *)
(* the record kept for it is labelled HYBRID.                               *)
(***************************************************************************)
\* the interpreter calls of the latest page that were made for the rendered page
RenderCalls(calls) == {c \in DOMAIN calls : calls[c].image = 0}

C15_NoDiagramsKeepsHybridLabel ==
    [][ ( /\ pc = "pages"
          /\ page_num' = page_num + 1
          /\ Len(strip(CurrentPdf.pages[page_num'].text)) >= MIN_TEXT_LENGTH
          /\ KeywordGate(strip(CurrentPdf.pages[page_num'].text))
          /\ \E c \in RenderCalls(last'.calls) :
                 last'.calls[c].ok /\ Contains(last'.calls[c].answer, "NO_DIAGRAMS_FOUND") )
        => /\ ~last'.raised
           /\ last'.mode = "HYBRID"
           /\ ~Contains(last'.content, "[DIAGRAM ANALYSIS]")
           /\ ~Contains(last'.content, "NO_DIAGRAMS_FOUND")
           /\ stats'.hybrid_pages = stats.hybrid_pages + 1
           /\ page_log'[page_num'] = "KEPT" =>
                  documents'[Len(documents')].metadata.processing_mode = "HYBRID"
      ]_vars

\* a keyword page was kept as HYBRID after the interpreter found no diagram
C15_Witness ==
    /\ PageHandled
    /\ ~last.raised
    /\ last.mode = "HYBRID"
    /\ \E c \in RenderCalls(last.calls) : last.calls[c].answer = "NO_DIAGRAMS_FOUND"
    /\ page_log[page_num] = "KEPT"
    /\ stats.hybrid_pages >= 1
    /\ documents[Len(documents)].metadata.processing_mode = "HYBRID"

(***************************************************************************)
(* C16.  When an interpreter call made for a page fails and the page's      *)
(* native text has at least MIN_TEXT_LENGTH characters, the page is not     *)
(* dropped: its native text is assembled into content and the record is     *)
(* added to the write batch.  This is to hold for a failed embedded-image   *)
(* call and for a failed call on the rendered page of a HYBRID page.        *)
(***************************************************************************)
C16_FailedInterpretationKeepsNativeText ==
    ( /\ PageHandled
      /\ Len(LastRawText) >= MIN_TEXT_LENGTH
      /\ \E c \in DOMAIN last.calls : ~last.calls[c].ok )
    => /\ ~last.raised
       /\ Contains(last.content, LastRawText)
       /\ page_log[page_num] = "KEPT"
       /\ documents # <<>>
       /\ documents[Len(documents)].page_content = last.content
       /\ documents[Len(documents)].metadata.page = page_num

(***************************************************************************)
(* C17.  A failure on one embedded image of a page (it cannot be extracted, *)
(* or its interpretation fails) skips that image only: every other retained *)
(* image of the page still gets its interpreter call, and its description   *)
(* when the call returns, and no image failure makes the page raise.        *)
(***************************************************************************)
C17_ImageFailureSkipsOnlyThatImage ==
    (PageHandled /\ last.images_listed) =>
        /\ \A i \in DOMAIN LastPage.images :
              Retained(LastPage.images[i]) =>
                  \E c \in DOMAIN last.calls :
                      /\ last.calls[c].image = i
                      /\ (last.calls[c].ok /\ ~last.raised) =>
                             Contains(last.content,
                                      ImageTag(i, page_num) \o ": " \o last.calls[c].answer)
                      /\ (~last.calls[c].ok /\ ~last.raised) =>
                             ~Contains(last.content, ImageTag(i, page_num))
        /\ last.raised => \E c \in RenderCalls(last.calls) : ~last.calls[c].ok

\* of three images the first could not be extracted and the second was not
\* interpreted; the third was described and the page was kept
C17_Witness ==
    /\ PageHandled
    /\ last.images_listed
    /\ ~last.raised
    /\ Len(LastPage.images) = 3
    /\ LastPage.images[1].corrupt
    /\ \E c \in DOMAIN last.calls : last.calls[c].image = 2 /\ ~last.calls[c].ok
    /\ \E c \in DOMAIN last.calls : last.calls[c].image = 3 /\ last.calls[c].ok
    /\ Contains(last.content, ImageTag(3, page_num))
    /\ page_log[page_num] = "KEPT"

(***************************************************************************)
(* C18.  With OPENAI_API_KEY or MONGO_URI missing, the only step the run    *)
(* takes is to exit with status 1: the folder is not scanned (nor created), *)
(* no PDF is opened, no interpreter call and no write call is made.         *)
(***************************************************************************)
C18_MissingCredentialExitsBeforeAnyWork ==
    [][ (OPENAI_API_KEY = "" \/ MONGO_URI = "") =>
            /\ pc = "start"
            /\ pc' = "exited"
            /\ exit_code' = 1
            /\ folder' = folder
            /\ pdf_files' = <<>>
            /\ open_docs' = {}
            /\ last' = NoPage
            /\ write_calls' = <<>>
            /\ collection' = <<>>
            /\ all_stats' = <<>>
      ]_vars

\* the run exited with status 1 for a missing MONGO_URI, PDFs waiting in the
\* folder untouched
C18_Witness ==
    /\ pc = "exited"
    /\ exit_code = 1
    /\ OPENAI_API_KEY # ""
    /\ MONGO_URI = ""
    /\ folder.exists
    /\ folder.files # <<>>
    /\ pdf_files = <<>>
    /\ open_docs = {}

(***************************************************************************)
(* C20.  The content of a page is, in this order: the continuation block    *)
(* with the carried tail (when there is a tail and an overlap); the primary *)
(* content, which is the native text, or on a VISION_FULL page the          *)
(* interpreter's answer without the native text; on a HYBRID page the       *)
(* diagram analysis, when the interpreter gave one; the embedded-image      *)
(* descriptions, each with its ordinal and page number.  A part that is     *)
(* absent leaves the others in place.                                       *)
(***************************************************************************)
\* the answer of the interpreter to the call made for the rendered page
RenderAnswer(calls) ==
    IF RenderCalls(calls) = {} THEN ""
    ELSE calls[CHOOSE c \in RenderCalls(calls) : TRUE].answer

\* the descriptions expected from the image calls that returned, in call order
RECURSIVE DescribedImages(_, _)
DescribedImages(calls, page_no) ==
    IF calls = <<>> THEN <<>>
    ELSE LET c == Head(calls)
             rest == DescribedImages(Tail(calls), page_no)
         IN  IF c.image > 0 /\ c.ok
             THEN <<ImageTag(c.image, page_no) \o ": " \o c.answer>> \o rest
             ELSE rest

RECURSIVE Joined(_)
Joined(parts) ==
    IF parts = <<>> THEN ""
    ELSE IF Len(parts) = 1 THEN parts[1]
    ELSE parts[1] \o "\n\n" \o Joined(Tail(parts))

C20_ContentPartsInFixedOrder ==
    (PageHandled /\ ~last.raised) =>
        LET answer == RenderAnswer(last.calls)
            described == DescribedImages(last.calls, page_num)
            part1 == IF last.tail_in # "" /\ OVERLAP_SIZE > 0
                     THEN Continuation(last.tail_in) ELSE ""
            part2 == IF Len(LastRawText) < MIN_TEXT_LENGTH THEN answer ELSE LastRawText
            part3 == IF /\ Len(LastRawText) >= MIN_TEXT_LENGTH
                        /\ last.mode = "HYBRID"
                        /\ answer # ""
                        /\ answer # "NO_DIAGRAMS_FOUND"
                     THEN "\n\n[DIAGRAM ANALYSIS]\n" \o answer ELSE ""
            part4 == IF described # <<>>
                     THEN "\n\n[EMBEDDED IMAGES]\n" \o Joined(described) ELSE ""
        IN  last.content = part1 \o part2 \o part3 \o part4

\* a kept page whose content has all four parts
C20_Witness ==
    /\ PageHandled
    /\ ~last.raised
    /\ last.tail_in # ""
    /\ OVERLAP_SIZE > 0
    /\ last.mode = "HYBRID"
    /\ StartsWith(last.content, Continuation(last.tail_in) \o LastRawText
                                  \o "\n\n[DIAGRAM ANALYSIS]\n")
    /\ Contains(last.content, "\n\n[EMBEDDED IMAGES]\n[IMAGE 1 - Page 2]: ")

batch_text_for_embedding(previous_page_text_tail, real_page_num, current_page_text) ==
    (IF previous_page_text_tail # "" /\ OVERLAP_SIZE > 0
     THEN "\n[...Sayfa " \o ToString(real_page_num - 1) \o "'den devam...]\n"
            \o previous_page_text_tail \o "\n"
            \o "[...Sayfa sonu...]\n\n"
     ELSE "")
    \o current_page_text

\* ingest_batch.py 397-403: the tail kept for the next page
batch_tail(previous_page_text_tail, current_page_text) ==
    IF OVERLAP_SIZE > 0
    THEN (IF Len(current_page_text) > OVERLAP_SIZE
          THEN LastChars(current_page_text, OVERLAP_SIZE)
          ELSE current_page_text)
    ELSE previous_page_text_tail

\* ingest_batch.py 361-403: the tail carried once the first n pages are done
RECURSIVE batch_tail_after(_, _)
batch_tail_after(pages, n) ==
    IF n = 0 THEN ""
    ELSE batch_tail(batch_tail_after(pages, n - 1), pages[n].text)

\* ingest_batch.py 449-455
batch_metadata(file_name, real_page_num) ==
    [source |-> file_name, page |-> real_page_num, type |-> "hybrid_book_page",
     has_overlap |-> OVERLAP_SIZE > 0]

\* the first line of the continuation block
ContinuationMarker == "[...onceki sayfadan devam...]"

\* the records of every batch handed to the vector store, each with the call and
\* its place in the batch
Forwarded ==
    UNION {{<<w, d>> : d \in DOMAIN write_calls[w].batch} : w \in DOMAIN write_calls}

ForwardedRecord(f) == write_calls[f[1]].batch[f[2]]

(***************************************************************************)
(* C21.  Within one run over a recursively scanned directory tree, no two   *)
(* records forwarded to the vector store carry the same (source, page)      *)
(* pair.                                                                    *)
(***************************************************************************)
C21_NoTwoRecordsShareSourceAndPage ==
    \A f, g \in Forwarded :
        (/\ ForwardedRecord(f).metadata.source = ForwardedRecord(g).metadata.source
         /\ ForwardedRecord(f).metadata.page = ForwardedRecord(g).metadata.page)
            => f = g

(***************************************************************************)
(* C22.  With OVERLAP_SIZE = 0 no page's content carries an overlap prefix  *)
(* or a continuation marker, whatever the preceding pages hold: not the     *)
(* content process_page_hybrid returns, not a record collected or           *)
(* persisted, and not the text the plain batch ingester hands on.           *)
(***************************************************************************)
C22_ZeroOverlapDisablesPrefix ==
    OVERLAP_SIZE = 0 =>
        /\ (PageHandled /\ ~last.raised) => ~Contains(last.content, ContinuationMarker)
        /\ \A d \in DOMAIN documents :
               ~Contains(documents[d].page_content, ContinuationMarker)
        /\ \A d \in DOMAIN collection :
               ~Contains(collection[d].page_content, ContinuationMarker)
        /\ PageHandled =>
               batch_text_for_embedding(batch_tail_after(CurrentPdf.pages, page_num - 1),
                                        page_num, LastPage.text) = LastPage.text

\* OVERLAP_SIZE is 0, the page before left a tail, and the page after it came back
\* without a continuation block
C22_Witness ==
    /\ OVERLAP_SIZE = 0
    /\ PageHandled
    /\ page_num >= 2
    /\ ~last.raised
    /\ last.tail_in # ""
    /\ page_log[page_num] = "KEPT"
    /\ ~Contains(last.content, ContinuationMarker)

(***************************************************************************)
(* C23.  total_images_analyzed counts the embedded images that were sent to *)
(* the interpreter and whose description was included in a page's content:  *)
(* a page that comes back adds the number of its images the interpreter     *)
(* described, a page that raises adds nothing, and the count is what the    *)
(* file's statistics report.                                                *)
(***************************************************************************)
InterpretedImages(calls) == {c \in DOMAIN calls : calls[c].image > 0 /\ calls[c].ok}

C23_ImagesAnalyzedCountsInterpretedImages ==
    [][ (pc = "pages" /\ now' = now + 1)
            => stats'.total_images_analyzed - stats.total_images_analyzed
                 = (IF last'.raised THEN 0 ELSE Cardinality(InterpretedImages(last'.calls))) ]_vars

(***************************************************************************)
(* C24.  Whatever the mode of a page, each embedded image that passes the   *)
(* size filter is sent to the interpreter exactly once, before the mode is  *)
(* decided (so before the page is rendered for VISION_FULL or HYBRID), and  *)
(* the description the interpreter gave is in the content the page returns. *)
(***************************************************************************)
CallsAbout(calls, img_idx) == {c \in DOMAIN calls : calls[c].image = img_idx}

C24_RetainedImageInterpretedOnceBeforeMode ==
    (PageHandled /\ last.images_listed) =>
        \A i \in DOMAIN LastPage.images :
            Retained(LastPage.images[i]) =>
                /\ Cardinality(CallsAbout(last.calls, i)) = 1
                /\ \A c \in CallsAbout(last.calls, i) :
                       /\ last.calls[c].prompt = VISION_PROMPT_EMBEDDED_IMAGE
                       /\ \A k \in RenderCalls(last.calls) : c < k
                       /\ (last.calls[c].ok /\ ~last.raised)
                              => Contains(last.content,
                                          ImageTag(i, page_num) \o ": " \o last.calls[c].answer)

\* a VISION_FULL page: its embedded image was described first, then the page was
\* rendered and described, and the content holds the image's description
C24_Witness ==
    /\ PageHandled
    /\ last.mode = "VISION_FULL"
    /\ ~last.raised
    /\ Len(last.calls) = 2
    /\ last.calls[1].image = 1 /\ last.calls[1].ok
    /\ last.calls[2].image = 0 /\ last.calls[2].prompt = VISION_PROMPT_FULL_PAGE
    /\ Contains(last.content, ImageTag(1, page_num) \o ": " \o last.calls[1].answer)

(***************************************************************************)
(* C26.  Whenever process_pdf returns statistics (no exception left it),    *)
(* documents_added + skipped_pages = total_pages for the file, skipped      *)
(* pages being the too-short pages and the pages that raised.               *)
(***************************************************************************)
Times(log, outcome) == Cardinality({k \in DOMAIN log : log[k] = outcome})

C26_AddedPlusSkippedIsTotal ==
    /\ \A i \in DOMAIN all_stats :
           "error" \notin DOMAIN all_stats[i] =>
               all_stats[i].documents_added + all_stats[i].skipped_pages
                   = all_stats[i].total_pages
    /\ (pc = "files" /\ all_stats # <<>> /\ "error" \notin DOMAIN all_stats[Len(all_stats)]
          /\ page_log # <<>>)
         => all_stats[Len(all_stats)].skipped_pages
                = Times(page_log, "SKIPPED") + Times(page_log, "FAILED")

\* a file came back with a page written, a page too short and a page that raised
C26_Witness ==
    /\ pc = "files"
    /\ all_stats # <<>>
    /\ "error" \notin DOMAIN all_stats[Len(all_stats)]
    /\ all_stats[Len(all_stats)].documents_added >= 1
    /\ Times(page_log, "SKIPPED") >= 1
    /\ Times(page_log, "FAILED") >= 1

(***************************************************************************)
(* C27.  At every point of process_pdf's page loop the four mode counters   *)
(* add up to the number of pages handled so far that did not raise; a page  *)
(* dropped as too short is in its mode counter and in skipped_pages, so the *)
(* four counters plus skipped_pages can exceed total_pages.                 *)
(***************************************************************************)
ModeCounters(st) ==
    st.text_only_pages + st.text_with_images_pages + st.vision_full_pages + st.hybrid_pages

C27_ModeCountersCountPagesThatReturned ==
    pc = "pages" =>
        /\ ModeCounters(stats) = Len(page_log) - Times(page_log, "FAILED")
        /\ stats.skipped_pages = Times(page_log, "SKIPPED") + Times(page_log, "FAILED")

\* the file is through and its counters add up to more than its pages
C27_Witness ==
    /\ pc = "pages"
    /\ page_num = stats.total_pages
    /\ Times(page_log, "SKIPPED") >= 1
    /\ ModeCounters(stats) + stats.skipped_pages > stats.total_pages

C29_MinimumAppliesToAssembledContent ==
    (PageHandled /\ ~last.raised) =>
        /\ page_log[page_num] = "KEPT" <=> Len(strip(last.content)) >= 50
        /\ (last.content = Continuation(last.tail_in) /\ Len(strip(last.content)) >= 50)
              => /\ page_log[page_num] = "KEPT"
                 /\ documents # <<>>
                 /\ documents[Len(documents)].page_content = last.content
                 /\ documents[Len(documents)].metadata.page = page_num

\* the page's content is the continuation block and nothing else, and the page
\* was collected for the write
C29_Witness ==
    /\ PageHandled
    /\ ~last.raised
    /\ last.tail_in # ""
    /\ last.content = Continuation(last.tail_in)
    /\ page_log[page_num] = "KEPT"
    /\ documents # <<>>
    /\ documents[Len(documents)].page_content = last.content

(***************************************************************************)
(* C30.  has_overlap in the metadata of every record is OVERLAP_SIZE > 0,   *)
(* the same for all records of a run, whether or not the record's content   *)
(* carries an overlap block; so does the plain batch ingester.              *)
(***************************************************************************)
C30_HasOverlapFollowsConfiguration ==
    /\ \A d \in DOMAIN documents :
           documents[d].metadata.has_overlap = (OVERLAP_SIZE > 0)
    /\ \A f \in Forwarded : ForwardedRecord(f).metadata.has_overlap = (OVERLAP_SIZE > 0)
    /\ \A d \in DOMAIN collection :
           collection[d].metadata.has_overlap = (OVERLAP_SIZE > 0)
    /\ PageHandled =>
           batch_metadata(CurrentPdf.name, page_num).has_overlap = (OVERLAP_SIZE > 0)

\* with OVERLAP_SIZE > 0, the record of a first page is flagged and has no block,
\* and the record of the second page is flagged and has one
C30_Witness ==
    /\ OVERLAP_SIZE > 0
    /\ Len(documents) >= 2
    /\ documents[1].metadata.page = 1
    /\ documents[1].metadata.has_overlap
    /\ ~Contains(documents[1].page_content, ContinuationMarker)
    /\ documents[2].metadata.has_overlap
    /\ StartsWith(documents[2].page_content, ContinuationMarker)

(***************************************************************************)
(* C25.  In the conversational graph knowledge_retriever and fortune_teller *)
(* run only when vision_scanner reported is_hand_detected = true and no     *)
(* error_message; otherwise the flow ends right after vision_scanner.  When *)
(* they run, knowledge_retriever runs once, before fortune_teller, which    *)
(* runs once, and the flow then ends: no node runs twice.                   *)
(***************************************************************************)
NodesRun == [i \in DOMAIN graph.ran |-> graph.ran[i].node]

GraphPath == <<"vision_scanner", "knowledge_retriever", "fortune_teller">>

\* what vision_scanner returned lets the flow go on
VisionReportedAHand ==
    /\ graph.ran # <<>>
    /\ graph.ran[1].output.is_hand_detected = TRUE
    /\ graph.ran[1].output.error_message = None

C25_RetrievalAndPersonaOnlyAfterAHand ==
    pc = "graph" =>
        /\ Len(NodesRun) <= 3
        /\ NodesRun = SubSeq(GraphPath, 1, Len(NodesRun))
        /\ Len(NodesRun) >= 2 => VisionReportedAHand
        /\ graph.at = "knowledge_retriever" => (Len(NodesRun) = 1 /\ VisionReportedAHand)
        /\ graph.at = "fortune_teller" => Len(NodesRun) = 2
        /\ graph.at = "END" =>
               \/ Len(NodesRun) = 1 /\ ~VisionReportedAHand
               \/ Len(NodesRun) = 3 /\ VisionReportedAHand

\* the flow has ended after the three nodes ran, with a reading for the user
C25_Witness ==
    /\ pc = "graph"
    /\ graph.at = "END"
    /\ NodesRun = GraphPath
    /\ VisionReportedAHand
    /\ graph.state.retrieved_documents # <<>>
    /\ ~Falsy(graph.state.final_response)

=============================================================================
